---- MODULE Spec2Model ----
(***************************************************************************)
(* The chess move service of src/app.py: the request handler get_ai_move,  *)
(* the root driver, minimax with its transposition table, and              *)
(* quiescence_search, as a step machine whose stack frames are the Python  *)
(* call frames; and the static evaluator evaluate_board over an 8x8 board. *)
(*                                                                         *)
(* The rules library (board, legal moves, terminal tests, FEN) is not part *)
(* of the repository.  The search is therefore run over a table of         *)
(* positions, Positions, that records for each FEN what the library        *)
(* answers for it: side to move, check, draw conditions, the legal moves   *)
(* in generation order with their capture / check / promotion attributes,  *)
(* and the value evaluate_board returns for either perspective.            *)
(***************************************************************************)
EXTENDS Integers, Sequences, FiniteSets, TLC

\* ------------------------------------------------------------ constants

\* float('inf') of the handler and of the root window
Inf == 1000000000

\* the checkmate score of minimax
MateScore == 1000000

\* sys.setrecursionlimit(2000)
RecursionLimit == 2000

TT_EXACT == 0
TT_LOWERBOUND == 1
TT_UPPERBOUND == 2

PIECE_VALUES == [t \in {"P", "N", "B", "R", "Q", "K"} |->
                   CASE t = "P" -> 100
                     [] t = "N" -> 320
                     [] t = "B" -> 330
                     [] t = "R" -> 500
                     [] t = "Q" -> 900
                     [] t = "K" -> 20000]

Max(a, b) == IF a >= b THEN a ELSE b

Min(a, b) == IF a <= b THEN a ELSE b

\* --------------------------------------------- the rules library's answers

\* One legal move as the library reports it: its UCI text, the FEN after it,
\* is_capture, the piece on the destination square (none for en passant),
\* the moving piece, gives_check, and the promotion piece type (0: none;
\* the library's piece types are the integers 1..6).
Mv(uci, to, capture, victim, attacker, gives_check, promotion) ==
  [uci |-> uci, to |-> to, capture |-> capture, victim |-> victim,
   attacker |-> attacker, gives_check |-> gives_check, promotion |-> promotion]

Quiet(uci, to, piece) == Mv(uci, to, FALSE, "none", piece, FALSE, 0)

\* One position: turn (TRUE: white, as chess.WHITE), is_check,
\* is_insufficient_material, is_seventyfive_moves, evaluate_board for the
\* white and for the black perspective, list(board.legal_moves).
Pos(turn, check, insufficient, seventyfive, evalW, evalB, moves) ==
  [turn |-> turn, check |-> check, insufficient |-> insufficient,
   seventyfive |-> seventyfive, evalW |-> evalW, evalB |-> evalB,
   moves |-> moves]

Positions ==
  \* quiet positions below every search horizon
     "deepW" :> Pos(TRUE, FALSE, FALSE, FALSE, 0, 0, << Quiet("a2a3", "deepB", "P") >>)
  @@ "deepB" :> Pos(FALSE, FALSE, FALSE, FALSE, 0, 0, << Quiet("a7a6", "deepW", "P") >>)
  \* white mates in one (d1d8)
  @@ "MW" :> Pos(TRUE, FALSE, FALSE, FALSE, 1, -1,
                 << Quiet("g1h1", "MWq", "K"),
                    Mv("d1d8", "MWm", FALSE, "none", "R", TRUE, 0) >>)
  @@ "MWq" :> Pos(FALSE, FALSE, FALSE, FALSE, 1, -1, << Quiet("h7h6", "MWq1", "P") >>)
  @@ "MWq1" :> Pos(TRUE, FALSE, FALSE, FALSE, 1, -1, << Quiet("h1g1", "deepB", "K") >>)
  @@ "MWm" :> Pos(FALSE, TRUE, FALSE, FALSE, 9, -9, << >>)
  \* black mates in one (d8d1)
  @@ "MB" :> Pos(FALSE, FALSE, FALSE, FALSE, -1, 1,
                 << Quiet("g8h8", "MBq", "K"),
                    Mv("d8d1", "MBm", FALSE, "none", "R", TRUE, 0) >>)
  @@ "MBq" :> Pos(TRUE, FALSE, FALSE, FALSE, -1, 1, << Quiet("h2h3", "MBq1", "P") >>)
  @@ "MBq1" :> Pos(FALSE, FALSE, FALSE, FALSE, -1, 1, << Quiet("h8g8", "deepW", "K") >>)
  @@ "MBm" :> Pos(TRUE, TRUE, FALSE, FALSE, -9, 9, << >>)
  \* white can stalemate (g1g6) or leave bare kings (f7g8)
  @@ "D" :> Pos(TRUE, FALSE, FALSE, FALSE, 9, -9,
                << Quiet("g1g2", "Dq", "Q"),
                   Quiet("g1g6", "Dst", "Q"),
                   Mv("f7g8", "Dins", TRUE, "N", "K", FALSE, 0) >>)
  @@ "Dq" :> Pos(FALSE, FALSE, FALSE, FALSE, 9, -9, << Quiet("h8h7", "deepW", "K") >>)
  @@ "Dst" :> Pos(FALSE, FALSE, FALSE, FALSE, 9, -9, << >>)
  @@ "Dins" :> Pos(FALSE, FALSE, TRUE, FALSE, 1, -1, << Quiet("h8h7", "deepW", "K") >>)
  \* two move orders, a-b-c and c-b-a, reach the same position TL
  @@ "T" :> Pos(TRUE, FALSE, FALSE, FALSE, 0, 0,
                << Quiet("a2a3", "Ta", "P"), Quiet("c2c3", "Tc", "P") >>)
  @@ "Ta" :> Pos(FALSE, FALSE, FALSE, FALSE, 0, 0, << Quiet("b7b6", "Tab", "P") >>)
  @@ "Tc" :> Pos(FALSE, FALSE, FALSE, FALSE, 0, 0, << Quiet("b7b6", "Tcb", "P") >>)
  @@ "Tab" :> Pos(TRUE, FALSE, FALSE, FALSE, 0, 0,
                  << Quiet("h2h3", "Tabh", "P"), Quiet("c2c3", "TL", "P") >>)
  @@ "Tcb" :> Pos(TRUE, FALSE, FALSE, FALSE, 0, 0, << Quiet("a2a3", "TL", "P") >>)
  @@ "Tabh" :> Pos(FALSE, FALSE, FALSE, FALSE, 2, -2, << Quiet("a7a6", "deepW", "P") >>)
  @@ "TL" :> Pos(FALSE, FALSE, FALSE, FALSE, -5, 5, << Quiet("a7a6", "deepW", "P") >>)
  \* after a2a3 black chooses between a reply good and a reply bad for white
  @@ "W" :> Pos(TRUE, FALSE, FALSE, FALSE, 0, 0,
                << Quiet("a2a3", "Wa", "P"), Quiet("b2b3", "Wb", "P") >>)
  @@ "Wa" :> Pos(FALSE, FALSE, FALSE, FALSE, 0, 0,
                 << Quiet("g7g6", "Wag", "P"), Quiet("h7h6", "Wah", "P") >>)
  @@ "Wb" :> Pos(FALSE, FALSE, FALSE, FALSE, 0, 0, << Quiet("g7g6", "Wbg", "P") >>)
  @@ "Wag" :> Pos(TRUE, FALSE, FALSE, FALSE, 3, -3, << Quiet("h2h3", "deepB", "P") >>)
  @@ "Wah" :> Pos(TRUE, FALSE, FALSE, FALSE, -10, 10, << Quiet("h2h3", "deepB", "P") >>)
  @@ "Wbg" :> Pos(TRUE, FALSE, FALSE, FALSE, -5, 5, << Quiet("h2h3", "deepB", "P") >>)
  \* checks answered by checks: Y1 and Y2 repeat
  @@ "Y" :> Pos(TRUE, FALSE, FALSE, FALSE, 0, 0,
                << Mv("e2e7", "Y1", FALSE, "none", "R", TRUE, 0) >>)
  @@ "Y1" :> Pos(FALSE, TRUE, FALSE, FALSE, 3, -3,
                 << Mv("d8d7", "Y2", FALSE, "none", "K", TRUE, 0) >>)
  @@ "Y2" :> Pos(TRUE, TRUE, FALSE, FALSE, -3, 3,
                 << Mv("d1d2", "Y1", FALSE, "none", "K", TRUE, 0) >>)
  \* captures, an en-passant capture, a check and quiet moves
  @@ "N" :> Pos(TRUE, FALSE, FALSE, FALSE, 0, 0,
                << Quiet("b1c3", "Nq", "N"),
                   Mv("e5d6", "Ne", TRUE, "none", "P", FALSE, 0),
                   Mv("f1b5", "Nk", FALSE, "none", "B", TRUE, 0),
                   Mv("g4h5", "Nc", TRUE, "Q", "P", FALSE, 0) >>)
  @@ "Nq" :> Pos(FALSE, FALSE, FALSE, FALSE, 0, 0,
                 << Quiet("a7a6", "deepW", "P"),
                    Mv("h5g4", "Nqx", TRUE, "P", "Q", FALSE, 0) >>)
  @@ "Nqx" :> Pos(TRUE, FALSE, FALSE, FALSE, -1, 1,
                  << Mv("h3g4", "Nqxx", TRUE, "Q", "P", FALSE, 0) >>)
  @@ "Nqxx" :> Pos(FALSE, FALSE, FALSE, FALSE, 8, -8, << Quiet("a7a6", "deepW", "P") >>)
  @@ "Ne" :> Pos(FALSE, FALSE, FALSE, FALSE, 1, -1, << Quiet("a7a6", "deepW", "P") >>)
  @@ "Nk" :> Pos(FALSE, TRUE, FALSE, FALSE, 0, 0, << Quiet("e8e7", "deepW", "K") >>)
  @@ "Nc" :> Pos(FALSE, FALSE, FALSE, FALSE, 9, -9, << Quiet("a7a6", "deepW", "P") >>)
  \* after h2h3 black has a capture of equal men, which white can take back,
  \* and, generated after it, a check that captures nothing
  @@ "K" :> Pos(TRUE, FALSE, FALSE, FALSE, 0, 0, << Quiet("h2h3", "Kq", "P") >>)
  @@ "Kq" :> Pos(FALSE, FALSE, FALSE, FALSE, 0, 0,
                 << Mv("h8h1", "Kx", TRUE, "R", "R", FALSE, 0),
                    Mv("c6d4", "Kk", FALSE, "none", "N", TRUE, 0) >>)
  @@ "Kx" :> Pos(TRUE, FALSE, FALSE, FALSE, -5, 5,
                 << Quiet("a2a3", "deepB", "P"),
                    Mv("g2h1", "Kxx", TRUE, "R", "B", FALSE, 0) >>)
  @@ "Kxx" :> Pos(FALSE, FALSE, FALSE, FALSE, -2, 2, << Quiet("a7a6", "deepW", "P") >>)
  @@ "Kk" :> Pos(TRUE, TRUE, FALSE, FALSE, -1, 1, << Quiet("e2e1", "deepB", "K") >>)
  \* the only legal moves are the four promotions g7g8
  @@ "P" :> Pos(TRUE, FALSE, FALSE, FALSE, 2, -2,
                << Mv("g7g8q", "Pq", FALSE, "none", "P", FALSE, 5),
                   Mv("g7g8r", "Pr", FALSE, "none", "P", FALSE, 4),
                   Mv("g7g8b", "Pb", FALSE, "none", "P", FALSE, 3),
                   Mv("g7g8n", "Pn", FALSE, "none", "P", FALSE, 2) >>)
  @@ "Pq" :> Pos(FALSE, FALSE, FALSE, FALSE, 9, -9, << Quiet("c1c2", "deepW", "K") >>)
  @@ "Pr" :> Pos(FALSE, FALSE, FALSE, FALSE, 5, -5, << Quiet("c1c2", "deepW", "K") >>)
  @@ "Pb" :> Pos(FALSE, FALSE, FALSE, FALSE, 3, -3, << Quiet("c1c2", "deepW", "K") >>)
  @@ "Pn" :> Pos(FALSE, FALSE, FALSE, FALSE, 3, -3, << Quiet("c1c2", "deepW", "K") >>)

Fens == DOMAIN Positions

\* board.legal_moves
legal_moves(fen) == Positions[fen].moves

\* board.is_checkmate()
is_checkmate(fen) == Positions[fen].check /\ legal_moves(fen) = << >>

\* board.is_stalemate()
is_stalemate(fen) == ~Positions[fen].check /\ legal_moves(fen) = << >>

\* the draw conditions minimax tests after checkmate.  A board built from a
\* FEN and at most three plies deep cannot hold a fivefold repetition.
is_draw(fen) ==
  \/ is_stalemate(fen)
  \/ Positions[fen].insufficient
  \/ Positions[fen].seventyfive

\* board.is_game_over()
is_game_over(fen) == is_checkmate(fen) \/ is_draw(fen)

\* evaluate_board(board, ai_color_is_white) on a position of the table
StaticEval(fen, ai_color_is_white) ==
  IF ai_color_is_white THEN Positions[fen].evalW ELSE Positions[fen].evalB

\* ------------------------------------------------------------ move order

calculate_mvl_lva(move) ==
  IF ~move.capture THEN 0
  ELSE IF move.victim = "none" THEN 0
  ELSE PIECE_VALUES[move.victim] - PIECE_VALUES[move.attacker]

\* the sort key of the root and of minimax
KeyWithCheck(move) == calculate_mvl_lva(move) + (IF move.gives_check THEN 100 ELSE 0)

\* the sort key of quiescence_search
KeyPlain(move) == calculate_mvl_lva(move)

Key(move, with_check) == IF with_check THEN KeyWithCheck(move) ELSE KeyPlain(move)

\* list.sort(key=..., reverse=True): descending and stable
RECURSIVE InsertByKey(_, _, _)
InsertByKey(sorted, move, with_check) ==
  IF sorted = << >> THEN << move >>
  ELSE IF Key(Head(sorted), with_check) >= Key(move, with_check)
       THEN << Head(sorted) >> \o InsertByKey(Tail(sorted), move, with_check)
       ELSE << move >> \o sorted

RECURSIVE SortMoves(_, _)
SortMoves(moves, with_check) ==
  IF moves = << >> THEN << >>
  ELSE InsertByKey(SortMoves(SubSeq(moves, 1, Len(moves) - 1), with_check),
                   moves[Len(moves)], with_check)

\* the moves quiescence_search keeps: captures, checks, promotions
IsNoisy(move) == move.capture \/ move.gives_check \/ move.promotion # 0

noisy_moves(fen) == SelectSeq(legal_moves(fen), IsNoisy)

\* ------------------------------------------------ the board of evaluate_board

\* chess.SQUARES: a1 = 0, b1 = 1, ..., h1 = 7, a2 = 8, ..., h8 = 63
SQUARES == 0 .. 63

square_file(sq) == sq % 8

square_rank(sq) == sq \div 8

square(file_index, rank_index) == rank_index * 8 + file_index

\* chess.Piece(piece_type, color); color TRUE is chess.WHITE
Piece(piece_type, color) == [piece_type |-> piece_type, color |-> color]

\* board.piece_at of an empty square
None == [piece_type |-> "none", color |-> FALSE]

Abs(x) == IF x < 0 THEN -x ELSE x

Sgn(x) == IF x < 0 THEN -1 ELSE IF x > 0 THEN 1 ELSE 0

\* the squares strictly between two squares of one rank, file or diagonal
Between(s, t) ==
  LET df == square_file(t) - square_file(s)
      dr == square_rank(t) - square_rank(s)
      n == Max(Abs(df), Abs(dr))
  IN {square(square_file(s) + k * Sgn(df), square_rank(s) + k * Sgn(dr)) :
        k \in 1 .. (n - 1)}

\* the piece on s attacks t, on the placement piece_at (pins do not matter)
Attacks(piece_at, s, t) ==
  LET p == piece_at[s]
      df == square_file(t) - square_file(s)
      dr == square_rank(t) - square_rank(s)
      on_line == (df = 0) # (dr = 0)
      on_diagonal == Abs(df) = Abs(dr) /\ df # 0
      clear == \A m \in Between(s, t) : piece_at[m] = None
  IN /\ p # None
     /\ s # t
     /\ CASE p.piece_type = "P" -> Abs(df) = 1 /\ dr = (IF p.color THEN 1 ELSE -1)
          [] p.piece_type = "N" -> {Abs(df), Abs(dr)} = {1, 2}
          [] p.piece_type = "K" -> Max(Abs(df), Abs(dr)) = 1
          [] p.piece_type = "R" -> on_line /\ clear
          [] p.piece_type = "B" -> on_diagonal /\ clear
          [] p.piece_type = "Q" -> (on_line \/ on_diagonal) /\ clear
          [] OTHER -> FALSE

\* board.attackers(color, square)
attackers(piece_at, color, sq) ==
  {s \in SQUARES : piece_at[s] # None /\ piece_at[s].color = color /\ Attacks(piece_at, s, sq)}

\* board.is_attacked_by(color, square)
is_attacked_by(piece_at, color, sq) == attackers(piece_at, color, sq) # {}

\* board.king(color): the king's square, or -1 for None
king(piece_at, color) ==
  IF \E s \in SQUARES : piece_at[s] = Piece("K", color)
  THEN CHOOSE s \in SQUARES : piece_at[s] = Piece("K", color)
  ELSE -1

RECURSIVE SumOver(_, _)
SumOver(f, S) ==
  IF S = {} THEN 0
  ELSE LET x == CHOOSE y \in S : TRUE IN f[x] + SumOver(f, S \ {x})

\* where the piece on s may move, before the own king's safety is looked at.
\* The boards evaluated here carry no castling right and no en-passant square.
MoveTargets(piece_at, s) ==
  LET p == piece_at[s]
      forward == IF p.color THEN 8 ELSE -8
      start_rank == IF p.color THEN 1 ELSE 6
  IN IF p.piece_type = "P"
     THEN {t \in SQUARES : /\ Attacks(piece_at, s, t)
                           /\ piece_at[t] # None
                           /\ piece_at[t].color # p.color}
          \cup {t \in {s + forward} : t \in SQUARES /\ piece_at[t] = None}
          \cup {t \in {s + 2 * forward} : /\ square_rank(s) = start_rank
                                          /\ piece_at[s + forward] = None
                                          /\ piece_at[t] = None}
     ELSE {t \in SQUARES : /\ Attacks(piece_at, s, t)
                           /\ (piece_at[t] = None \/ piece_at[t].color # p.color)}

\* the move s-t leaves the mover's king unattacked
IsSafe(piece_at, s, t) ==
  LET color == piece_at[s].color
      after == [piece_at EXCEPT ![t] = piece_at[s], ![s] = None]
      k == king(after, color)
  IN k = -1 \/ ~is_attacked_by(after, ~color, k)

\* len(list(board.legal_moves)) with board.turn set to color; a pawn reaching
\* the last rank counts once per promotion piece
legal_move_count(piece_at, color) ==
  LET own == {s \in SQUARES : piece_at[s] # None /\ piece_at[s].color = color}
      targets(s) == {t \in MoveTargets(piece_at, s) : IsSafe(piece_at, s, t)}
      promotions(s) == IF piece_at[s].piece_type = "P"
                       THEN {t \in targets(s) : square_rank(t) \in {0, 7}}
                       ELSE {}
  IN SumOver([s \in own |-> Cardinality(targets(s)) + 3 * Cardinality(promotions(s))],
             own)

\* board.is_check(): the king of the side to move is attacked
is_check(b) ==
  /\ king(b.piece_at, b.turn) # -1
  /\ is_attacked_by(b.piece_at, ~b.turn, king(b.piece_at, b.turn))

\* ------------------------------------------------------- evaluate_board

PAWN_TABLE ==
  << << 0, 0, 0, 0, 0, 0, 0, 0 >>,
     << 50, 50, 50, 50, 50, 50, 50, 50 >>,
     << 10, 10, 20, 30, 30, 20, 10, 10 >>,
     << 5, 5, 10, 25, 25, 10, 5, 5 >>,
     << 0, 0, 0, 0, 0, 0, 0, 0 >>,
     << 5, -5, -10, 0, 0, -10, -5, 5 >>,
     << 5, 10, 10, -20, -20, 10, 10, 5 >>,
     << 0, 0, 0, 0, 0, 0, 0, 0 >> >>

KNIGHT_TABLE ==
  << << -50, -40, -30, -30, -30, -30, -40, -50 >>,
     << -40, -20, 0, 0, 0, 0, -20, -40 >>,
     << -30, 0, 10, 15, 15, 10, 0, -30 >>,
     << -30, 5, 15, 20, 20, 15, 5, -30 >>,
     << -30, 0, 15, 20, 20, 15, 0, -30 >>,
     << -30, 5, 10, 15, 15, 10, 5, -30 >>,
     << -40, -20, 0, 5, 5, 0, -20, -40 >>,
     << -50, -40, -30, -30, -30, -30, -30, -50 >> >>

BISHOP_TABLE ==
  << << -20, -10, -10, -10, -10, -10, -10, -20 >>,
     << -10, 0, 0, 0, 0, 0, 0, -10 >>,
     << -10, 0, 5, 10, 10, 5, 0, -10 >>,
     << -10, 5, 5, 10, 10, 5, 5, -10 >>,
     << -10, 0, 10, 10, 10, 10, 0, -10 >>,
     << -10, 10, 10, 10, 10, 10, 10, -10 >>,
     << -10, 5, 0, 0, 0, 0, 5, -10 >>,
     << -20, -10, -10, -10, -10, -10, -10, -20 >> >>

ROOK_TABLE ==
  << << 0, 0, 0, 0, 0, 0, 0, 0 >>,
     << 5, 10, 10, 10, 10, 10, 10, 5 >>,
     << -5, 0, 0, 0, 0, 0, 0, -5 >>,
     << -5, 0, 0, 0, 0, 0, 0, -5 >>,
     << -5, 0, 0, 0, 0, 0, 0, -5 >>,
     << -5, 0, 0, 0, 0, 0, 0, -5 >>,
     << -5, 0, 0, 0, 0, 0, 0, -5 >>,
     << 0, 0, 0, 5, 5, 0, 0, 0 >> >>

QUEEN_TABLE ==
  << << -20, -10, -10, -5, -5, -10, -10, -20 >>,
     << -10, 0, 0, 0, 0, 0, 0, -10 >>,
     << -10, 0, 5, 5, 5, 5, 0, -10 >>,
     << -5, 0, 5, 5, 5, 5, 0, -5 >>,
     << 0, 0, 5, 5, 5, 5, 0, -5 >>,
     << -10, 5, 5, 5, 5, 5, 0, -10 >>,
     << -10, 0, 5, 0, 0, 0, 0, -10 >>,
     << -20, -10, -10, -5, -5, -10, -10, -20 >> >>

KING_TABLE ==
  << << -30, -40, -40, -50, -50, -40, -40, -30 >>,
     << -30, -40, -40, -50, -50, -40, -40, -30 >>,
     << -30, -40, -40, -50, -50, -40, -40, -30 >>,
     << -30, -40, -40, -50, -50, -40, -40, -30 >>,
     << -20, -30, -30, -40, -40, -30, -30, -20 >>,
     << -10, -20, -20, -20, -20, -20, -20, -10 >>,
     << 20, 20, 0, 0, 0, 0, 20, 20 >>,
     << 20, 30, 10, 0, 0, 10, 30, 20 >> >>

PIECE_TABLES ==
  [t \in {"P", "N", "B", "R", "Q", "K"} |->
     CASE t = "P" -> PAWN_TABLE
       [] t = "N" -> KNIGHT_TABLE
       [] t = "B" -> BISHOP_TABLE
       [] t = "R" -> ROOK_TABLE
       [] t = "Q" -> QUEEN_TABLE
       [] t = "K" -> KING_TABLE]

\* the table of a piece, [row[::-1] for row in reversed(table)] for black;
\* rows and columns count from 1 here
get_piece_table(piece_type, color) ==
  LET table == PIECE_TABLES[piece_type] IN
    IF ~color
    THEN [row \in 1 .. 8 |-> [col \in 1 .. 8 |-> table[9 - row][9 - col]]]
    ELSE table

\* _is_path_clear for two squares of one rank or one file
is_path_clear(piece_at, square1, square2) ==
  IF square_rank(square1) = square_rank(square2)
       \/ square_file(square1) = square_file(square2)
  THEN \A m \in Between(square1, square2) : piece_at[m] = None
  ELSE TRUE

\* _is_passed_pawn: no opposing pawn ahead on the pawn's file or a file next to it
is_passed_pawn(piece_at, sq, pawn_color) ==
  LET file_idx == square_file(sq)
      rank_idx == square_rank(sq)
      ahead == IF pawn_color THEN (rank_idx + 1) .. 7 ELSE 0 .. (rank_idx - 1)
  IN \A f \in Max(0, file_idx - 1) .. Min(7, file_idx + 1) :
       \A r \in ahead : piece_at[square(f, r)] # Piece("P", ~pawn_color)

\* 1 for the perspective's own colour, -1 for the other
Side(color, ai_color_is_white) == IF color = ai_color_is_white THEN 1 ELSE -1

Occupied(piece_at) == {s \in SQUARES : piece_at[s] # None}

\* material and piece-square value of the piece on sq
MaterialTerm(piece_at, sq, ai_color_is_white) ==
  LET piece == piece_at[sq]
      value == PIECE_VALUES[piece.piece_type]
      table == get_piece_table(piece.piece_type, piece.color)
      positional_value == table[square_rank(sq) + 1][square_file(sq) + 1]
  IN Side(piece.color, ai_color_is_white) * (value + positional_value)

\* the mobility bonus added for the piece on sq: twice the number of legal
\* moves of the piece's whole side
MobilityTerm(piece_at, sq, ai_color_is_white) ==
  Side(piece_at[sq].color, ai_color_is_white)
    * (legal_move_count(piece_at, piece_at[sq].color) * 2)

\* the hanging-piece term of the piece on sq; opponent_color is the colour that
\* is not the perspective's, whatever the piece's colour.  value * 0.8 is a
\* whole number for each of the six piece values.
HangingTerm(piece_at, sq, ai_color_is_white) ==
  LET piece == piece_at[sq]
      value == PIECE_VALUES[piece.piece_type]
      opponent_color == ~ai_color_is_white
  IN IF /\ is_attacked_by(piece_at, opponent_color, sq)
        /\ ~is_attacked_by(piece_at, piece.color, sq)
     THEN IF piece.color = ai_color_is_white
          THEN -((value * 4) \div 5)
          ELSE (value * 4) \div 5
     ELSE 0

BishopPairTerm(piece_at, ai_color_is_white) ==
  LET white_bishops == Cardinality({s \in SQUARES : piece_at[s] = Piece("B", TRUE)})
      black_bishops == Cardinality({s \in SQUARES : piece_at[s] = Piece("B", FALSE)})
  IN (IF white_bishops >= 2 THEN (IF ai_color_is_white THEN 30 ELSE -30) ELSE 0)
     + (IF black_bishops >= 2 THEN (IF ~ai_color_is_white THEN 30 ELSE -30) ELSE 0)

\* the rook connection term: every pair of rooks of one colour with a clear
\* path on a shared rank, else on a shared file
RookConnectionTerm(piece_at, ai_color_is_white) ==
  LET rook_connection_bonus == 10
      white_rooks == {s \in SQUARES : piece_at[s] = Piece("R", TRUE)}
      black_rooks == {s \in SQUARES : piece_at[s] = Piece("R", FALSE)}
      pairs(rooks) == {p \in rooks \X rooks : p[1] < p[2]}
      same_rank(p) == square_rank(p[1]) = square_rank(p[2])
      same_file(p) == square_file(p[1]) = square_file(p[2])
      white_pair(p) ==
        IF same_rank(p)
        THEN IF is_path_clear(piece_at, p[1], p[2])
             THEN (IF ai_color_is_white THEN rook_connection_bonus
                   ELSE -rook_connection_bonus)
             ELSE 0
        ELSE IF same_file(p)
        THEN IF is_path_clear(piece_at, p[1], p[2])
             THEN (IF ~ai_color_is_white THEN rook_connection_bonus
                   ELSE -rook_connection_bonus)
             ELSE 0
        ELSE 0
      black_pair(p) ==
        IF (same_rank(p) \/ same_file(p)) /\ is_path_clear(piece_at, p[1], p[2])
        THEN (IF ~ai_color_is_white THEN rook_connection_bonus
              ELSE -rook_connection_bonus)
        ELSE 0
  IN (IF Cardinality(white_rooks) >= 2
      THEN SumOver([p \in pairs(white_rooks) |-> white_pair(p)], pairs(white_rooks))
      ELSE 0)
     + (IF Cardinality(black_rooks) >= 2
        THEN SumOver([p \in pairs(black_rooks) |-> black_pair(p)], pairs(black_rooks))
        ELSE 0)

\* doubled, isolated and connected pawns, file by file
PawnStructureTerm(piece_at, ai_color_is_white) ==
  LET pawns_in_file(file_index, color) ==
        Cardinality({rank \in 0 .. 7 :
                       piece_at[square(file_index, rank)] = Piece("P", color)})
      doubled(file_index, color) ==
        IF pawns_in_file(file_index, color) > 1
        THEN (IF color = ai_color_is_white THEN -20 ELSE 20)
        ELSE 0
      is_isolated(file_index, color) ==
        /\ pawns_in_file(file_index, color) > 0
        /\ (file_index = 0 \/ pawns_in_file(file_index - 1, color) = 0)
        /\ (file_index = 7 \/ pawns_in_file(file_index + 1, color) = 0)
      isolated(file_index, color) ==
        IF is_isolated(file_index, color)
        THEN (IF color = ai_color_is_white THEN -15 ELSE 15)
        ELSE 0
      connected(sq) ==
        LET pawn == piece_at[sq]
            file_index == square_file(sq)
        IN IF pawn # None /\ pawn.piece_type = "P"
           THEN (IF file_index > 0 /\ piece_at[sq - 1] = Piece("P", pawn.color)
                 THEN (IF pawn.color = ai_color_is_white THEN 5 ELSE -5)
                 ELSE 0)
                + (IF file_index < 7 /\ piece_at[sq + 1] = Piece("P", pawn.color)
                   THEN (IF pawn.color = ai_color_is_white THEN 5 ELSE -5)
                   ELSE 0)
           ELSE 0
  IN SumOver([file_index \in 0 .. 7 |->
                doubled(file_index, TRUE) + doubled(file_index, FALSE)
                + isolated(file_index, TRUE) + isolated(file_index, FALSE)],
             0 .. 7)
     + SumOver([sq \in SQUARES |-> connected(sq)], SQUARES)

\* the king block of one colour.  It is entered on "if king_square:", which a
\* king on a1 (square 0) fails like a missing king.  The pawn shield looks one
\* and two ranks below a white king and above a black king; the open-file
\* penalty is subtracted from the score whatever the perspective; the check
\* term looks at the side to move, whichever king the block is about.
KingTerm(b, color, ai_color_is_white) ==
  LET piece_at == b.piece_at
      king_safety_bonus == 10
      king_attack_penalty == 50
      king_open_file_penalty == 10
      king_square == king(piece_at, color)
      king_rank == square_rank(king_square)
      king_file == square_file(king_square)
      step == IF color THEN -1 ELSE 1
      shield(f) ==
        (IF /\ king_rank + step \in 0 .. 7
            /\ piece_at[square(f, king_rank + step)] = Piece("P", color)
         THEN 10 ELSE 0)
        + (IF /\ king_rank + 2 * step \in 0 .. 7
              /\ piece_at[square(f, king_rank + 2 * step)] = Piece("P", color)
           THEN 5 ELSE 0)
      files == Max(0, king_file - 1) .. Min(7, king_file + 1)
      safety == SumOver([f \in files |-> shield(f)], files)
      open_file ==
        IF ~\E r \in 0 .. 7 : piece_at[square(king_file, r)] = Piece("P", color)
        THEN -king_open_file_penalty
        ELSE 0
      check ==
        IF is_check(b)
        THEN (IF color = ai_color_is_white THEN -king_attack_penalty
              ELSE king_attack_penalty)
        ELSE 0
  IN IF king_square = -1 \/ king_square = 0
     THEN 0
     ELSE open_file + check
          + (IF color = ai_color_is_white THEN safety ELSE -safety)

CenterTerm(piece_at, ai_color_is_white) ==
  LET central_squares == {27, 28, 35, 36}
      center_control_bonus == 10
  IN SumOver([sq \in central_squares |->
                IF piece_at[sq] = None THEN 0
                ELSE Side(piece_at[sq].color, ai_color_is_white) * center_control_bonus],
             central_squares)

\* the development term of the first five full moves.  A square counts only in
\* the branch taken when its piece is neither a minor piece of the colour nor
\* absent, and there only when it is a minor piece of the colour.
DevelopmentTerm(b, ai_color_is_white) ==
  LET piece_at == b.piece_at
      is_minor(sq, color) ==
        /\ piece_at[sq] # None
        /\ piece_at[sq].color = color
        /\ piece_at[sq].piece_type \in {"N", "B"}
      developed(sq, color) ==
        IF is_minor(sq, color) THEN 0
        ELSE IF piece_at[sq] = None THEN 0
        ELSE IF is_minor(sq, color) THEN 1 ELSE 0
      white_developed_pieces ==
        SumOver([sq \in {1, 2, 5, 6} |-> developed(sq, TRUE)], {1, 2, 5, 6})
      black_developed_pieces ==
        SumOver([sq \in {57, 58, 61, 62} |-> developed(sq, FALSE)], {57, 58, 61, 62})
  IN IF b.fullmove_number < 6
     THEN IF ai_color_is_white
          THEN white_developed_pieces * 10 - black_developed_pieces * 10
          ELSE black_developed_pieces * 10 - white_developed_pieces * 10
     ELSE 0

\* rooks on open and semi-open files, in half points: the bonus is 15 on an
\* open file and 15 / 2 on a semi-open one
RookFileTermTwice(piece_at, ai_color_is_white) ==
  LET rook_open_semi_file_bonus == 15
      on_file(file_idx, piece) ==
        \E rank_idx \in 0 .. 7 : piece_at[square(file_idx, rank_idx)] = piece
      file_is_open_white(file_idx) == ~on_file(file_idx, Piece("P", TRUE))
      file_is_open_black(file_idx) == ~on_file(file_idx, Piece("P", FALSE))
      white(file_idx) ==
        IF /\ on_file(file_idx, Piece("R", TRUE))
           /\ file_is_open_white(file_idx)
           /\ file_is_open_black(file_idx)
        THEN 2 * rook_open_semi_file_bonus
        ELSE IF on_file(file_idx, Piece("R", TRUE)) /\ file_is_open_black(file_idx)
        THEN rook_open_semi_file_bonus
        ELSE 0
      black(file_idx) ==
        IF /\ on_file(file_idx, Piece("R", FALSE))
           /\ file_is_open_black(file_idx)
           /\ file_is_open_white(file_idx)
        THEN 2 * rook_open_semi_file_bonus
        ELSE IF on_file(file_idx, Piece("R", FALSE)) /\ file_is_open_white(file_idx)
        THEN rook_open_semi_file_bonus
        ELSE 0
  IN SumOver([file_idx \in 0 .. 7 |->
                (IF ai_color_is_white THEN white(file_idx) ELSE -white(file_idx))
                + (IF ~ai_color_is_white THEN black(file_idx) ELSE -black(file_idx))],
             0 .. 7)

PassedPawnTerm(piece_at, ai_color_is_white) ==
  LET passed_pawn_base_bonus == 50
      bonus(sq) ==
        LET piece == piece_at[sq]
            rank == square_rank(sq)
            advancement_bonus == IF piece.color THEN (rank - 1) * 10 ELSE (6 - rank) * 10
        IN IF /\ piece # None
              /\ piece.piece_type = "P"
              /\ is_passed_pawn(piece_at, sq, piece.color)
           THEN Side(piece.color, ai_color_is_white)
                  * (passed_pawn_base_bonus + advancement_bonus)
           ELSE 0
  IN SumOver([sq \in SQUARES |-> bonus(sq)], SQUARES)

KnightOutpostTerm(piece_at, ai_color_is_white) ==
  LET knight_outpost_bonus == 25
      central_squares == {27, 28, 35, 36}
      outpost(sq) ==
        LET piece == piece_at[sq]
            knight_color == piece.color
            is_defended_by_pawn ==
              \E pawn_sq \in attackers(piece_at, knight_color, sq) :
                piece_at[pawn_sq].piece_type = "P"
            is_attacked_by_opp_pawn ==
              \E pawn_sq \in attackers(piece_at, ~knight_color, sq) :
                piece_at[pawn_sq].piece_type = "P"
        IN IF /\ piece # None
              /\ piece.piece_type = "N"
              /\ is_defended_by_pawn
              /\ ~is_attacked_by_opp_pawn
           THEN Side(knight_color, ai_color_is_white) * knight_outpost_bonus
           ELSE 0
  IN SumOver([sq \in central_squares |-> outpost(sq)], central_squares)

\* evaluate_board(board, ai_color_is_white), in half points
evaluate_board(b, ai_color_is_white) ==
  LET piece_at == b.piece_at
      pieces == Occupied(piece_at)
  IN 2 * ( SumOver([sq \in pieces |->
                      MaterialTerm(piece_at, sq, ai_color_is_white)
                      + MobilityTerm(piece_at, sq, ai_color_is_white)
                      + HangingTerm(piece_at, sq, ai_color_is_white)], pieces)
           + BishopPairTerm(piece_at, ai_color_is_white)
           + RookConnectionTerm(piece_at, ai_color_is_white)
           + PawnStructureTerm(piece_at, ai_color_is_white)
           + KingTerm(b, TRUE, ai_color_is_white)
           + KingTerm(b, FALSE, ai_color_is_white)
           + CenterTerm(piece_at, ai_color_is_white)
           + DevelopmentTerm(b, ai_color_is_white)
           + PassedPawnTerm(piece_at, ai_color_is_white)
           + KnightOutpostTerm(piece_at, ai_color_is_white) )
     + RookFileTermTwice(piece_at, ai_color_is_white)

\* ------------------------------------------- the boards that are evaluated

\* how many men besides the two kings a generated board holds at most
MaxMen == 2

Man(sq, piece_type, color) == [sq |-> sq, piece |-> Piece(piece_type, color)]

\* the placement of a set of men on distinct squares
Place(men) ==
  [sq \in SQUARES |->
     IF \E m \in men : m.sq = sq
     THEN (CHOOSE m \in men : m.sq = sq).piece
     ELSE None]

\* a1, e1, g1
WhiteKingSquares == {0, 4, 6}

\* e8, g8
BlackKingSquares == {60, 62}

\* wPe2 bPe7 wNd4 wPc3 bNe5 bPd6 wRd1 wRh1 bBc8 bBf8 bQh4
Menu ==
  {Man(12, "P", TRUE), Man(52, "P", FALSE), Man(27, "N", TRUE), Man(18, "P", TRUE),
   Man(36, "N", FALSE), Man(43, "P", FALSE), Man(3, "R", TRUE), Man(7, "R", TRUE),
   Man(58, "B", FALSE), Man(61, "B", FALSE), Man(31, "Q", FALSE)}

\* the men of chess.STARTING_FEN
StartingMen ==
  LET back == << "R", "N", "B", "Q", "K", "B", "N", "R" >> IN
    {Man(square(f, 0), back[f + 1], TRUE) : f \in 0 .. 7}
    \cup {Man(square(f, 1), "P", TRUE) : f \in 0 .. 7}
    \cup {Man(square(f, 6), "P", FALSE) : f \in 0 .. 7}
    \cup {Man(square(f, 7), back[f + 1], FALSE) : f \in 0 .. 7}

Placements ==
  {Place({Man(wk, "K", TRUE), Man(bk, "K", FALSE)} \cup men) :
     wk \in WhiteKingSquares, bk \in BlackKingSquares,
     men \in {S \in SUBSET Menu : Cardinality(S) <= MaxMen}}
  \cup {Place(StartingMen)}

\* the boards a search can hold: the side that is not to move is not in check
EvalBoards ==
  {b \in [piece_at : Placements, turn : BOOLEAN, fullmove_number : {1, 20}] :
     ~is_attacked_by(b.piece_at, b.turn, king(b.piece_at, ~b.turn))}

NoBoard == [piece_at |-> [sq \in SQUARES |-> None], turn |-> TRUE, fullmove_number |-> 1]

NoScore == [ai_color_is_white \in BOOLEAN |-> [called |-> FALSE, score |-> 0]]

\* ---------------------------------------------------------------- state

Requests == {1, 2}

VARIABLES
  pc,                   \* where each request's handler stands
  data,                 \* the request body each handler received
  resp,                 \* the response each handler produced
  board,                \* each handler's chess.Board: the FENs of its move stack
  stack,                \* each handler's call frames, the innermost last
  ret,                  \* the value the last returned call handed to its caller
  transposition_table,  \* the module-level dict, shared by all requests
  last,                 \* the last call that returned: its arguments and its result
  calls,                \* per request: the calls of minimax made, the table probes that answered
  foreign,              \* what one request did to the table entries of another
  eval_board,           \* the board a caller hands to evaluate_board
  eval_score            \* what evaluate_board returned for it, per perspective

vars == << pc, data, resp, board, stack, ret, transposition_table, last, calls, foreign,
           eval_board, eval_score >>

eval_vars == << eval_board, eval_score >>

handler_vars == << pc, data, resp, board, stack, ret, transposition_table, last, calls,
                   foreign >>

NoEntry == [depth |-> -1, score |-> 0, flag |-> -1, by |-> 0]

Entry(depth, score, flag, r) == [depth |-> depth, score |-> score, flag |-> flag, by |-> r]

EmptyTable == [f \in Fens |-> NoEntry]

NoData == [kind |-> "none", board_fen |-> "", ai_color |-> "", difficulty |-> ""]

NoResp == [from |-> "", status |-> 0, success |-> FALSE, move |-> "None", message |-> ""]

NoLast == [fn |-> "", fen |-> "", depth |-> 0, persp |-> FALSE,
           alpha |-> 0, beta |-> 0, score |-> 0, hit |-> FALSE, move |-> "None"]

NoForeign == [read |-> FALSE, cleared |-> FALSE]

\* the request bodies: no JSON body at all, the JSON value null, or an object
\* whose three fields may each be absent ("") 
BoardFens == {"", "not a fen", "MW", "MB", "MBm", "D", "Dst", "Dins", "T", "W",
              "N", "K", "P"}

AiColors == {"", "white", "black"}

Difficulties == {"", "easy", "intermediate", "hard", "expert"}

Bodies ==
  {[kind |-> "absent", board_fen |-> "", ai_color |-> "", difficulty |-> ""],
   [kind |-> "null", board_fen |-> "", ai_color |-> "", difficulty |-> ""]}
  \cup [kind : {"object"}, board_fen : BoardFens, ai_color : AiColors,
        difficulty : Difficulties]

HandlerInit ==
  /\ pc = [r \in Requests |-> IF r = 1 THEN "idle" ELSE "off"]
  /\ data = [r \in Requests |-> NoData]
  /\ resp = [r \in Requests |-> NoResp]
  /\ board = [r \in Requests |-> << >>]
  /\ stack = [r \in Requests |-> << >>]
  /\ ret = [r \in Requests |-> 0]
  /\ transposition_table = EmptyTable
  /\ last = [r \in Requests |-> NoLast]
  /\ calls = [r \in Requests |-> [minimax |-> 0, hits |-> 0]]
  /\ foreign = NoForeign

Init ==
  /\ HandlerInit
  /\ eval_board = NoBoard
  /\ eval_score = NoScore

\* --------------------------------------------------------- the handler

\* what the client gets: from the handler (a jsonify(...) with its status), or,
\* when a failure leaves the handler, the framework's own error page
Response(status, success, move, message) ==
  [from |-> "handler", status |-> status, success |-> success, move |-> move,
   message |-> message]

FrameworkError(status) ==
  [from |-> "framework", status |-> status, success |-> FALSE, move |-> "None",
   message |-> ""]

\* a POST arrives at /api/get_ai_move
Receive(r, pool) ==
  /\ pc[r] = "idle"
  /\ \E b \in pool : data' = [data EXCEPT ![r] = b]
  /\ pc' = [pc EXCEPT ![r] = "get_json"]
  /\ UNCHANGED << resp, board, stack, ret, transposition_table, last, calls, foreign >>
  /\ UNCHANGED eval_vars

\* data = request.get_json() and the three data.get(...), before the try:
\* without a JSON body get_json raises, and for the body null it returns
\* None, on which data.get raises; either failure leaves the handler.
GetJson(r) ==
  /\ pc[r] = "get_json"
  /\ IF data[r].kind = "object"
     THEN /\ pc' = [pc EXCEPT ![r] = "validate"]
          /\ resp' = resp
     ELSE /\ pc' = [pc EXCEPT ![r] = "done"]
          /\ resp' = [resp EXCEPT ![r] =
                        FrameworkError(IF data[r].kind = "absent" THEN 415 ELSE 500)]
  /\ UNCHANGED << data, board, stack, ret, transposition_table, last, calls, foreign >>
  /\ UNCHANGED eval_vars

\* the search depth of a difficulty label
DepthOf(difficulty) ==
  CASE difficulty = "easy" -> 1
    [] difficulty = "intermediate" -> 2
    [] difficulty = "hard" -> 3
    [] OTHER -> 2

expected_turn(ai_color) == ai_color = "white"

\* the checks with the turn test placed before the game-over test
OutcomeTurnFirst(d) ==
  IF d.board_fen = "" \/ d.ai_color = "" \/ d.difficulty = "" THEN "missing"
  ELSE IF d.board_fen \notin Fens THEN "invalid fen"
  ELSE IF Positions[d.board_fen].turn # expected_turn(d.ai_color) THEN "not turn"
  ELSE IF is_game_over(d.board_fen) THEN "game over"
  ELSE "search"

\* what the checks before the search decide for a request body
Outcome(d) ==
  IF d.board_fen = "" \/ d.ai_color = "" \/ d.difficulty = "" THEN "missing"
  ELSE IF d.board_fen \notin Fens THEN "invalid fen"
  ELSE IF is_game_over(d.board_fen) THEN "game over"
  ELSE IF Positions[d.board_fen].turn # expected_turn(d.ai_color) THEN "not turn"
  ELSE "search"

Validate(r) ==
  /\ pc[r] = "validate"
  /\ LET o == Outcome(data[r]) IN
       IF o = "search"
       THEN /\ pc' = [pc EXCEPT ![r] = "clear"]
            /\ board' = [board EXCEPT ![r] = << data[r].board_fen >>]
            /\ resp' = resp
       ELSE /\ pc' = [pc EXCEPT ![r] = "done"]
            /\ board' = board
            /\ resp' = [resp EXCEPT ![r] =
                 CASE o = "missing" ->
                        Response(400, FALSE, "None", "Missing board_fen, ai_color, or difficulty")
                   [] o = "invalid fen" ->
                        Response(500, FALSE, "None", "invalid fen")
                   [] o = "game over" ->
                        Response(200, FALSE, "None", "Game is already over (checkmate, stalemate, or draw)")
                   [] OTHER ->
                        Response(200, FALSE, "None", "Not AI's turn to move.")]
  /\ UNCHANGED << data, stack, ret, transposition_table, last, calls, foreign >>
  /\ UNCHANGED eval_vars

\* ------------------------------------------------------- call frames

\* A frame of get_ai_move, minimax or quiescence_search: its arguments (the
\* board is the handler's one board object), its locals, and where it stands:
\* "enter" at its first line, "loop" at the head of its move loop, "ret" after
\* the call inside the loop, "leaf" after minimax's call of quiescence_search.
Frame(fn, fen, depth, persp, alpha, beta) ==
  [fn |-> fn, pc |-> "enter", fen |-> fen, depth |-> depth, persp |-> persp,
   alpha |-> alpha, beta |-> beta, a0 |-> alpha, b0 |-> beta,
   best |-> 0, best_move |-> 0, flag |-> TT_EXACT, moves |-> << >>, i |-> 1]

Top(r) == stack[r][Len(stack[r])]

Running(r, fn, at) ==
  /\ pc[r] = "search"
  /\ stack[r] # << >>
  /\ Top(r).fn = fn
  /\ Top(r).pc = at

\* board.fen() of the handler's board
fen_of(r) == board[r][Len(board[r])]

\* a call returns: its frame is popped and the caller finds the value
Return(r, f, score, hit) ==
  /\ stack' = [stack EXCEPT ![r] = SubSeq(@, 1, Len(@) - 1)]
  /\ ret' = [ret EXCEPT ![r] = score]
  /\ last' = [last EXCEPT ![r] =
                [fn |-> f.fn, fen |-> f.fen, depth |-> f.depth, persp |-> f.persp,
                 alpha |-> f.a0, beta |-> f.b0, score |-> score, hit |-> hit,
                 move |-> "None"]]
  /\ UNCHANGED << pc, resp >>

\* board.push(move) and the call that follows it.  The interpreter raises
\* RecursionError once the frames reach the recursion limit; the error unwinds
\* to the handler's except clause, which answers with its message.
PushAndCall(r, caller, move, callee) ==
  /\ board' = [board EXCEPT ![r] = Append(@, move.to)]
  /\ IF Len(stack[r]) >= RecursionLimit
     THEN /\ stack' = [stack EXCEPT ![r] = << >>]
          /\ pc' = [pc EXCEPT ![r] = "done"]
          /\ resp' = [resp EXCEPT ![r] =
                        Response(500, FALSE, "None", "maximum recursion depth exceeded")]
     ELSE /\ stack' = [stack EXCEPT ![r] =
                         Append([@ EXCEPT ![Len(@)] = caller], callee)]
          /\ UNCHANGED << pc, resp >>
  /\ UNCHANGED << ret, last >>

\* board.pop()
Popped(r) == [board EXCEPT ![r] = SubSeq(@, 1, Len(@) - 1)]

SetTop(r, f) == [stack EXCEPT ![r] = [@ EXCEPT ![Len(@)] = f]]

\* transposition_table[fen] = (depth, score, flag)
Stored(r, fen, depth, score, flag) ==
  [transposition_table EXCEPT ![fen] = Entry(depth, score, flag, r)]

\* ------------------------------------------------------ the root driver

\* transposition_table.clear(), then the root's locals and its sorted moves
ClearTable(r) ==
  /\ pc[r] = "clear"
  /\ transposition_table' = EmptyTable
  /\ foreign' = [foreign EXCEPT !.cleared =
                   @ \/ \E q \in Requests \ {r} :
                          /\ pc[q] = "search"
                          /\ \E f \in Fens : transposition_table[f].by = q]
  /\ LET fen == fen_of(r)
         ai_is_white == data[r].ai_color = "white"
         root == [Frame("get_ai_move", fen, DepthOf(data[r].difficulty),
                        ai_is_white, -Inf, Inf)
                  EXCEPT !.pc = "loop",
                         !.best = IF ai_is_white THEN -Inf ELSE Inf,
                         !.moves = SortMoves(legal_moves(fen), TRUE)]
     IN IF legal_moves(fen) = << >>
        THEN /\ pc' = [pc EXCEPT ![r] = "done"]
             /\ resp' = [resp EXCEPT ![r] =
                           Response(200, FALSE, "None",
                                    "No legal moves for AI (checkmate/stalemate)")]
             /\ stack' = stack
        ELSE /\ pc' = [pc EXCEPT ![r] = "search"]
             /\ resp' = resp
             /\ stack' = [stack EXCEPT ![r] = << root >>]
  /\ UNCHANGED << data, board, ret, last, calls >>
  /\ UNCHANGED eval_vars

\* the root loop handing its own perspective to minimax, not the flipped one
RootLoopSamePerspective(r) ==
  /\ Running(r, "get_ai_move", "loop")
  /\ LET f == Top(r) IN
       /\ f.i <= Len(f.moves)
       /\ PushAndCall(r, [f EXCEPT !.pc = "ret"], f.moves[f.i],
                      Frame("minimax", f.moves[f.i].to, f.depth - 1, f.persp, -Inf, Inf))
  /\ calls' = [calls EXCEPT ![r].minimax = @ + 1]
  /\ UNCHANGED << data, transposition_table, foreign >>
  /\ UNCHANGED eval_vars

\* for move in legal_moves_for_ai: board.push(move); minimax(board, depth - 1, ...)
RootLoop(r) ==
  /\ Running(r, "get_ai_move", "loop")
  /\ LET f == Top(r) IN
       /\ f.i <= Len(f.moves)
       /\ PushAndCall(r, [f EXCEPT !.pc = "ret"], f.moves[f.i],
                      Frame("minimax", f.moves[f.i].to, f.depth - 1, ~f.persp, -Inf, Inf))
  /\ calls' = [calls EXCEPT ![r].minimax = @ + 1]
  /\ UNCHANGED << data, transposition_table, foreign >>
  /\ UNCHANGED eval_vars

\* board.pop() and the root's selection of the best move
RootFold(r) ==
  /\ Running(r, "get_ai_move", "ret")
  /\ LET f == Top(r)
         score == ret[r]
         better == IF f.persp THEN score > f.best ELSE score < f.best
     IN stack' = SetTop(r, [f EXCEPT !.pc = "loop",
                                     !.i = @ + 1,
                                     !.best = IF better THEN score ELSE @,
                                     !.best_move = IF better THEN f.i ELSE @])
  /\ board' = Popped(r)
  /\ UNCHANGED << pc, data, resp, ret, transposition_table, last, calls, foreign >>
  /\ UNCHANGED eval_vars

\* the response after the loop.  best_move.promotion is an integer piece type,
\* so best_move.promotion.name raises AttributeError for a promoting move;
\* the except clause answers with the error's message.
Respond(r) ==
  /\ Running(r, "get_ai_move", "loop")
  /\ LET f == Top(r) IN
       /\ f.i > Len(f.moves)
       /\ resp' = [resp EXCEPT ![r] =
            IF f.best_move = 0
            THEN Response(200, FALSE, "None", "AI could not find a move.")
            ELSE IF f.moves[f.best_move].promotion # 0
            THEN Response(500, FALSE, "None", "'int' object has no attribute 'name'")
            ELSE Response(200, TRUE, f.moves[f.best_move].uci, "AI found a move.")]
       /\ last' = [last EXCEPT ![r] =
                     [fn |-> f.fn, fen |-> f.fen, depth |-> f.depth, persp |-> f.persp,
                      alpha |-> f.a0, beta |-> f.b0, score |-> f.best, hit |-> FALSE,
                      move |-> IF f.best_move = 0 THEN "None"
                               ELSE f.moves[f.best_move].uci]]
  /\ pc' = [pc EXCEPT ![r] = "done"]
  /\ stack' = [stack EXCEPT ![r] = << >>]
  /\ UNCHANGED << data, board, ret, transposition_table, calls, foreign >>
  /\ UNCHANGED eval_vars

\* ------------------------------------------------------------- minimax

\* the probe with the window tests left out: any entry deep enough answers
ProbeAnyBound(e, depth, alpha, beta) ==
  /\ e # NoEntry
  /\ e.depth >= depth

\* whether minimax answers from the table entry e
Probe(e, depth, alpha, beta) ==
  /\ e # NoEntry
  /\ e.depth >= depth
  /\ \/ e.flag = TT_EXACT
     \/ e.flag = TT_LOWERBOUND /\ e.score >= beta
     \/ e.flag = TT_UPPERBOUND /\ e.score <= alpha

\* the score minimax gives a checkmated position
CheckmateScore(fen, ai_color_is_white) ==
  IF Positions[fen].turn = ai_color_is_white THEN MateScore ELSE -MateScore

\* minimax from its first line to its move loop: the table probe, the
\* depth-0 call of quiescence_search, the terminal tests, the sorted moves
MinimaxEnter(r) ==
  /\ Running(r, "minimax", "enter")
  /\ LET f == Top(r)
         e == transposition_table[f.fen]
     IN /\ foreign' = [foreign EXCEPT !.read = @ \/ (e # NoEntry /\ e.by # r)]
        /\ IF Probe(e, f.depth, f.alpha, f.beta)
           THEN /\ Return(r, f, e.score, TRUE)
                /\ UNCHANGED << board, transposition_table >>
           ELSE IF f.depth = 0
           THEN /\ IF Len(stack[r]) >= RecursionLimit
                   THEN /\ stack' = [stack EXCEPT ![r] = << >>]
                        /\ pc' = [pc EXCEPT ![r] = "done"]
                        /\ resp' = [resp EXCEPT ![r] =
                              Response(500, FALSE, "None", "maximum recursion depth exceeded")]
                   ELSE /\ stack' = [stack EXCEPT ![r] =
                              Append([@ EXCEPT ![Len(@)] = [f EXCEPT !.pc = "leaf"]],
                                     Frame("quiescence_search", f.fen, 0, f.persp,
                                           f.alpha, f.beta))]
                        /\ UNCHANGED << pc, resp >>
                /\ UNCHANGED << board, ret, last, transposition_table >>
           ELSE IF is_checkmate(f.fen)
           THEN /\ Return(r, f, CheckmateScore(f.fen, f.persp), FALSE)
                /\ transposition_table' =
                     Stored(r, f.fen, f.depth, CheckmateScore(f.fen, f.persp), TT_EXACT)
                /\ board' = board
           ELSE IF is_draw(f.fen)
           THEN /\ Return(r, f, 0, FALSE)
                /\ transposition_table' = Stored(r, f.fen, f.depth, 0, TT_EXACT)
                /\ board' = board
           ELSE /\ stack' = SetTop(r, [f EXCEPT
                       !.pc = "loop",
                       !.best = IF f.persp THEN -Inf ELSE Inf,
                       !.flag = IF f.persp THEN TT_LOWERBOUND ELSE TT_UPPERBOUND,
                       !.moves = SortMoves(legal_moves(f.fen), TRUE)])
                /\ UNCHANGED << pc, resp, board, ret, last, transposition_table >>
        /\ calls' = [calls EXCEPT ![r].hits =
                        @ + (IF Probe(e, f.depth, f.alpha, f.beta) THEN 1 ELSE 0)]
  /\ data' = data
  /\ UNCHANGED eval_vars

\* minimax after quiescence_search returned: the score is stored as EXACT
MinimaxLeaf(r) ==
  /\ Running(r, "minimax", "leaf")
  /\ LET f == Top(r) IN
       /\ Return(r, f, ret[r], FALSE)
       /\ transposition_table' = Stored(r, f.fen, f.depth, ret[r], TT_EXACT)
  /\ UNCHANGED << data, board, calls, foreign >>
  /\ UNCHANGED eval_vars

\* the head of minimax's move loop: the next move is pushed and searched, or
\* the loop is exhausted and the node's score is stored and returned
MinimaxLoop(r) ==
  /\ Running(r, "minimax", "loop")
  /\ LET f == Top(r) IN
       IF f.i <= Len(f.moves)
       THEN /\ PushAndCall(r, [f EXCEPT !.pc = "ret"], f.moves[f.i],
                           Frame("minimax", f.moves[f.i].to, f.depth - 1, ~f.persp,
                                 -f.beta, -f.alpha))
            /\ calls' = [calls EXCEPT ![r].minimax = @ + 1]
            /\ transposition_table' = transposition_table
       ELSE /\ Return(r, f, f.best, FALSE)
            /\ transposition_table' = Stored(r, f.fen, f.depth, f.best, f.flag)
            /\ UNCHANGED << board, calls >>
  /\ UNCHANGED << data, foreign >>
  /\ UNCHANGED eval_vars

\* board.pop() and the fold of the child's score; on beta <= alpha the loop is
\* left and the node's score is stored and returned
MinimaxFold(r) ==
  /\ Running(r, "minimax", "ret")
  /\ LET f == Top(r)
         score == ret[r]
         best == IF f.persp THEN Max(f.best, score) ELSE Min(f.best, score)
         alpha == IF f.persp THEN Max(f.alpha, score) ELSE f.alpha
         beta == IF f.persp THEN f.beta ELSE Min(f.beta, score)
         flag == IF f.persp THEN TT_LOWERBOUND ELSE TT_UPPERBOUND
     IN IF beta <= alpha
        THEN /\ Return(r, f, best, FALSE)
             /\ transposition_table' = Stored(r, f.fen, f.depth, best, flag)
        ELSE /\ stack' = SetTop(r, [f EXCEPT !.pc = "loop", !.i = @ + 1, !.best = best,
                                             !.alpha = alpha, !.beta = beta])
             /\ UNCHANGED << pc, resp, ret, last, transposition_table >>
  /\ board' = Popped(r)
  /\ UNCHANGED << data, calls, foreign >>
  /\ UNCHANGED eval_vars

\* --------------------------------------------------- quiescence_search

\* the stand-pat cutoff returning the evaluation itself instead of beta
QuiesceEnterFailSoft(r) ==
  /\ Running(r, "quiescence_search", "enter")
  /\ LET f == Top(r)
         stand_pat == StaticEval(f.fen, f.persp)
     IN IF stand_pat >= f.beta
        THEN Return(r, f, stand_pat, FALSE)
        ELSE /\ stack' = SetTop(r, [f EXCEPT
                    !.pc = "loop",
                    !.alpha = Max(f.alpha, stand_pat),
                    !.moves = SortMoves(noisy_moves(f.fen), FALSE)])
             /\ UNCHANGED << pc, resp, ret, last >>
  /\ UNCHANGED << data, board, transposition_table, calls, foreign >>
  /\ UNCHANGED eval_vars

\* the stand-pat evaluation, its cutoff, and the sorted noisy moves
QuiesceEnter(r) ==
  /\ Running(r, "quiescence_search", "enter")
  /\ LET f == Top(r)
         stand_pat == StaticEval(f.fen, f.persp)
     IN IF stand_pat >= f.beta
        THEN Return(r, f, f.beta, FALSE)
        ELSE /\ stack' = SetTop(r, [f EXCEPT
                    !.pc = "loop",
                    !.alpha = Max(f.alpha, stand_pat),
                    !.moves = SortMoves(noisy_moves(f.fen), FALSE)])
             /\ UNCHANGED << pc, resp, ret, last >>
  /\ UNCHANGED << data, board, transposition_table, calls, foreign >>
  /\ UNCHANGED eval_vars

\* the head of the loop over the noisy moves
QuiesceLoop(r) ==
  /\ Running(r, "quiescence_search", "loop")
  /\ LET f == Top(r) IN
       IF f.i <= Len(f.moves)
       THEN PushAndCall(r, [f EXCEPT !.pc = "ret"], f.moves[f.i],
                        Frame("quiescence_search", f.moves[f.i].to, 0, ~f.persp,
                              -f.beta, -f.alpha))
       ELSE /\ Return(r, f, f.alpha, FALSE)
            /\ board' = board
  /\ UNCHANGED << data, transposition_table, calls, foreign >>
  /\ UNCHANGED eval_vars

\* the fold that returns on a cutoff without undoing the move
QuiesceFoldCutoffKeepsMove(r) ==
  /\ Running(r, "quiescence_search", "ret")
  /\ LET f == Top(r)
         score == -ret[r]
     IN IF score >= f.beta
        THEN Return(r, f, f.beta, FALSE)
        ELSE /\ stack' = SetTop(r, [f EXCEPT !.pc = "loop", !.i = @ + 1,
                                             !.alpha = Max(f.alpha, score)])
             /\ UNCHANGED << pc, resp, ret, last >>
  /\ board' = IF -ret[r] >= Top(r).beta THEN board ELSE Popped(r)
  /\ UNCHANGED << data, transposition_table, calls, foreign >>
  /\ UNCHANGED eval_vars

\* board.pop() and the fold of the negated score
QuiesceFold(r) ==
  /\ Running(r, "quiescence_search", "ret")
  /\ LET f == Top(r)
         score == -ret[r]
     IN IF score >= f.beta
        THEN Return(r, f, f.beta, FALSE)
        ELSE /\ stack' = SetTop(r, [f EXCEPT !.pc = "loop", !.i = @ + 1,
                                             !.alpha = Max(f.alpha, score)])
             /\ UNCHANGED << pc, resp, ret, last >>
  /\ board' = Popped(r)
  /\ UNCHANGED << data, transposition_table, calls, foreign >>
  /\ UNCHANGED eval_vars

\* ------------------------------------- the search as a function of its input

\* quiescence_search as a function: the value the call returns
RECURSIVE quiescence_value(_, _, _, _), quiescence_loop(_, _, _, _, _)
quiescence_loop(moves, i, persp, alpha, beta) ==
  IF i > Len(moves) THEN alpha
  ELSE LET score == -quiescence_value(moves[i].to, ~persp, -beta, -alpha) IN
         IF score >= beta THEN beta
         ELSE quiescence_loop(moves, i + 1, persp, Max(alpha, score), beta)

quiescence_value(fen, persp, alpha, beta) ==
  LET stand_pat == StaticEval(fen, persp) IN
    IF stand_pat >= beta THEN beta
    ELSE quiescence_loop(SortMoves(noisy_moves(fen), FALSE), 1, persp,
                         Max(alpha, stand_pat), beta)

\* minimax without its table, as a function.  With pruned it is the code's
\* loop: children get (-beta, -alpha) and the loop is left on beta <= alpha.
\* Without, it is the full-width search: every child gets (-inf, +inf) and
\* every move is searched.
RECURSIVE minimax_value(_, _, _, _, _, _), minimax_loop(_, _, _, _, _, _, _, _)
minimax_loop(moves, i, depth, persp, alpha, beta, best, pruned) ==
  IF i > Len(moves) THEN best
  ELSE LET score == IF pruned
                    THEN minimax_value(moves[i].to, depth - 1, ~persp, -beta, -alpha, TRUE)
                    ELSE minimax_value(moves[i].to, depth - 1, ~persp, -Inf, Inf, FALSE)
           best2 == IF persp THEN Max(best, score) ELSE Min(best, score)
           alpha2 == IF persp THEN Max(alpha, score) ELSE alpha
           beta2 == IF persp THEN beta ELSE Min(beta, score)
       IN IF pruned /\ beta2 <= alpha2 THEN best2
          ELSE minimax_loop(moves, i + 1, depth, persp, alpha2, beta2, best2, pruned)

minimax_value(fen, depth, persp, alpha, beta, pruned) ==
  IF depth = 0 THEN quiescence_value(fen, persp, alpha, beta)
  ELSE IF is_checkmate(fen) THEN CheckmateScore(fen, persp)
  ELSE IF is_draw(fen) THEN 0
  ELSE minimax_loop(SortMoves(legal_moves(fen), TRUE), 1, depth, persp, alpha, beta,
                    IF persp THEN -Inf ELSE Inf, pruned)

\* the root driver over minimax_value: the selected move and its score
RECURSIVE root_loop(_, _, _, _, _, _, _)
root_loop(moves, i, depth, ai_is_white, best_score, best_move, pruned) ==
  IF i > Len(moves) THEN [move |-> best_move, score |-> best_score]
  ELSE LET score == minimax_value(moves[i].to, depth - 1, ~ai_is_white, -Inf, Inf, pruned)
           better == IF ai_is_white THEN score > best_score ELSE score < best_score
       IN root_loop(moves, i + 1, depth, ai_is_white,
                    IF better THEN score ELSE best_score,
                    IF better THEN moves[i].uci ELSE best_move, pruned)

root_value(fen, depth, ai_is_white, pruned) ==
  root_loop(SortMoves(legal_moves(fen), TRUE), 1, depth, ai_is_white,
            IF ai_is_white THEN -Inf ELSE Inf, "None", pruned)

\* the requests whose search ran to the end of the root loop
Searched(r) == pc[r] = "done" /\ last[r].fn = "get_ai_move"

\* the move and the score a finished search selected
Selected(r) == [move |-> last[r].move, score |-> last[r].score]

\* ------------------------------------------------------ specifications

Next ==
  \E r \in Requests :
    \/ Receive(r, Bodies)
    \/ GetJson(r)
    \/ Validate(r)
    \/ ClearTable(r)
    \/ RootLoop(r)
    \/ RootFold(r)
    \/ Respond(r)
    \/ MinimaxEnter(r)
    \/ MinimaxLeaf(r)
    \/ MinimaxLoop(r)
    \/ MinimaxFold(r)
    \/ QuiesceEnter(r)
    \/ QuiesceLoop(r)
    \/ QuiesceFold(r)

\* one request served by the process
Spec == Init /\ [][Next]_vars

\* the bodies of the requests that are served side by side
ConcBodies ==
  [kind : {"object"}, board_fen : {"N"}, ai_color : {"white"},
   difficulty : {"easy", "intermediate"}]

\* the worker that answered a request takes the next one; what the answered
\* request left in the table is from then on an earlier request's
Again(r) ==
  /\ pc[r] = "done"
  /\ pc' = [pc EXCEPT ![r] = "idle"]
  /\ data' = [data EXCEPT ![r] = NoData]
  /\ resp' = [resp EXCEPT ![r] = NoResp]
  /\ board' = [board EXCEPT ![r] = << >>]
  /\ ret' = [ret EXCEPT ![r] = 0]
  /\ last' = [last EXCEPT ![r] = NoLast]
  /\ calls' = [calls EXCEPT ![r] = [minimax |-> 0, hits |-> 0]]
  /\ transposition_table' =
       [f \in Fens |-> IF transposition_table[f].by = r
                       THEN [transposition_table[f] EXCEPT !.by = -1]
                       ELSE transposition_table[f]]
  /\ UNCHANGED << stack, foreign >>
  /\ UNCHANGED eval_vars

InitConc ==
  /\ pc = [r \in Requests |-> "idle"]
  /\ data = [r \in Requests |-> NoData]
  /\ resp = [r \in Requests |-> NoResp]
  /\ board = [r \in Requests |-> << >>]
  /\ stack = [r \in Requests |-> << >>]
  /\ ret = [r \in Requests |-> 0]
  /\ transposition_table = EmptyTable
  /\ last = [r \in Requests |-> NoLast]
  /\ calls = [r \in Requests |-> [minimax |-> 0, hits |-> 0]]
  /\ foreign = NoForeign
  /\ eval_board = NoBoard
  /\ eval_score = NoScore

NextConc ==
  \E r \in Requests :
    \/ Receive(r, ConcBodies)
    \/ GetJson(r)
    \/ Validate(r)
    \/ ClearTable(r)
    \/ RootLoop(r)
    \/ RootFold(r)
    \/ Respond(r)
    \/ MinimaxEnter(r)
    \/ MinimaxLeaf(r)
    \/ MinimaxLoop(r)
    \/ MinimaxFold(r)
    \/ QuiesceEnter(r)
    \/ QuiesceLoop(r)
    \/ QuiesceFold(r)
    \/ Again(r)

\* two workers of the threaded server serving requests, one after another each
SpecConc == InitConc /\ [][NextConc]_vars

\* the bodies whose position starts a chain of checks each answered by a check
ChainBodies ==
  [kind : {"object"}, board_fen : {"Y"}, ai_color : {"white"},
   difficulty : {"easy", "intermediate", "hard"}]

NextChain ==
  \E r \in Requests :
    \/ Receive(r, Bodies \cup ChainBodies)
    \/ GetJson(r)
    \/ Validate(r)
    \/ ClearTable(r)
    \/ RootLoop(r)
    \/ RootFold(r)
    \/ Respond(r)
    \/ MinimaxEnter(r)
    \/ MinimaxLeaf(r)
    \/ MinimaxLoop(r)
    \/ MinimaxFold(r)
    \/ QuiesceEnter(r)
    \/ QuiesceLoop(r)
    \/ QuiesceFold(r)

\* one request served, the rules library answering with any chain of noisy
\* moves, the repeating chain of its table included
SpecChain == Init /\ [][NextChain]_vars

\* a caller evaluates the board for one perspective
EvaluateBoard(ai_color_is_white) ==
  /\ eval_board # NoBoard
  /\ ~eval_score[ai_color_is_white].called
  /\ eval_score' = [eval_score EXCEPT ![ai_color_is_white] =
                      [called |-> TRUE,
                       score |-> evaluate_board(eval_board, ai_color_is_white)]]
  /\ UNCHANGED eval_board
  /\ UNCHANGED handler_vars

InitEval ==
  /\ HandlerInit
  /\ eval_board \in EvalBoards
  /\ eval_score = NoScore

NextEval == \E ai_color_is_white \in BOOLEAN : EvaluateBoard(ai_color_is_white)

\* evaluate_board called on one board for both perspectives
SpecEval == InitEval /\ [][NextEval]_vars

\* the step machine and the function agree while no table probe answered
MachineIsFunction ==
  \A r \in Requests :
    Searched(r) /\ calls[r].hits = 0 =>
      Selected(r) = root_value(last[r].fen, last[r].depth, last[r].persp, TRUE)

\* ---------------------------------------------------------------- claims

\* C1: a finished search in which no table probe answered selects the move
\* and the score of the full-width search of the same depth, the same
\* quiescence and the same move order, whose children all get (-inf, +inf)
\* and whose loops are never left early.
C1_AlphaBetaEquivalence ==
  \A r \in Requests :
    Searched(r) /\ calls[r].hits = 0 =>
      Selected(r) = root_value(last[r].fen, last[r].depth, last[r].persp, FALSE)

\* C2: a finished search selects the move and the score that the same search
\* selects without the transposition table.
C2_TableSoundness ==
  \A r \in Requests :
    Searched(r) =>
      Selected(r) = root_value(last[r].fen, last[r].depth, last[r].persp, TRUE)

\* the legal moves of a position that deliver checkmate
MatingMoves(fen) ==
  {legal_moves(fen)[k].uci : k \in {j \in DOMAIN legal_moves(fen) :
                                      is_checkmate(legal_moves(fen)[j].to)}}

\* C3: when the side to move is the engine colour and has a mating move, a
\* finished search of any depth selects a mating move, with score +1,000,000
\* for white (whose root takes the maximum) and -1,000,000 for black (whose
\* root takes the minimum).
C3_MateDetection ==
  \A r \in Requests :
    Searched(r) /\ MatingMoves(last[r].fen) # {} =>
      /\ last[r].move \in MatingMoves(last[r].fen)
      /\ last[r].score = IF last[r].persp THEN MateScore ELSE -MateScore

\* C4: every call of minimax on a stalemate, an insufficient-material or a
\* 75-move position returns 0, at every depth and for every window.
C4_DrawScoresZero ==
  \A r \in Requests :
    last[r].fn = "minimax" /\ is_draw(last[r].fen) => last[r].score = 0

\* the request bodies that pass every check before the search
Searchable(d) ==
  /\ d.kind = "object"
  /\ d.board_fen \in Fens /\ d.ai_color # "" /\ d.difficulty # ""
  /\ ~is_game_over(d.board_fen)
  /\ Positions[d.board_fen].turn = (d.ai_color = "white")

\* C6: a request with all three fields, a position that is not over and the
\* engine colour to move is answered with success and a legal move of the
\* position.
C6_SearchAnswersLegalMove ==
  \A r \in Requests :
    pc[r] = "done" /\ Searchable(data[r]) =>
      /\ resp[r].success
      /\ \E k \in DOMAIN legal_moves(data[r].board_fen) :
           resp[r].move = legal_moves(data[r].board_fen)[k].uci

\* C8: whatever fails while a request is handled, the client gets the
\* handler's own success=false response; no failure leaves the handler.
C8_NoFailureEscapes ==
  \A r \in Requests : pc[r] = "done" => resp[r].from = "handler"

C7_ValidationOrder ==
  \A r \in Requests :
    pc[r] = "done" /\ data[r].kind = "object" =>
      LET d == data[r]
          missing == d.board_fen = "" \/ d.ai_color = "" \/ d.difficulty = ""
          parsed == ~missing /\ d.board_fen \in Fens
          over == is_checkmate(d.board_fen) \/ is_stalemate(d.board_fen)
                    \/ Positions[d.board_fen].insufficient
                    \/ Positions[d.board_fen].seventyfive
          unsearched == calls[r].minimax = 0 /\ last[r] = NoLast
      IN /\ missing =>
              /\ resp[r] = Response(400, FALSE, "None",
                                    "Missing board_fen, ai_color, or difficulty")
              /\ unsearched
         /\ parsed /\ over =>
              /\ resp[r] = Response(200, FALSE, "None",
                                    "Game is already over (checkmate, stalemate, or draw)")
              /\ unsearched
         /\ parsed /\ ~over /\ Positions[d.board_fen].turn # (d.ai_color = "white") =>
              /\ resp[r] = Response(200, FALSE, "None", "Not AI's turn to move.")
              /\ unsearched

\* white is checkmated and the engine colour is black: the request is answered
C7_Witness ==
  \E r \in Requests :
    /\ pc[r] = "done"
    /\ data[r].board_fen = "MBm" /\ data[r].ai_color = "black"
    /\ data[r].difficulty = "hard"
    /\ resp[r] = Response(200, FALSE, "None",
                          "Game is already over (checkmate, stalemate, or draw)")
    /\ calls[r].minimax = 0

\* C9: no search reads a table entry that another request stored, and no
\* request clears the table while it holds entries of another request whose
\* search is still running.
C9_TableIsolation == ~foreign.read /\ ~foreign.cleared

\* C5: evaluate_board for the white perspective is the negation of
\* evaluate_board for the black perspective, on every board.
C5_EvaluatorSymmetry ==
  eval_score[TRUE].called /\ eval_score[FALSE].called =>
    eval_score[TRUE].score = -eval_score[FALSE].score

\* the ordering key as the claim states it: victim minus attacker for a
\* capture (the victim of an en-passant capture is a pawn), 0 otherwise, and
\* 100 more for a move that gives check
C11_Key(move) ==
  (IF move.capture
   THEN PIECE_VALUES[IF move.victim = "none" THEN "P" ELSE move.victim]
          - PIECE_VALUES[move.attacker]
   ELSE 0)
  + (IF move.gives_check THEN 100 ELSE 0)

\* C11: at the root, in minimax and in quiescence_search the moves of a node
\* are tried in the order of that key, the higher key first.
C11_MoveOrderingKey ==
  \A r \in Requests : \A k \in DOMAIN stack[r] :
    LET moves == stack[r][k].moves IN
      \A i, j \in DOMAIN moves : i < j => C11_Key(moves[i]) >= C11_Key(moves[j])

\* C12: a call of minimax with depth >= 1 on a checkmated position returns
\* -1,000,000 when the side to move, which is the side checkmated, is the
\* perspective colour of the call, and +1,000,000 otherwise; the entry left
\* for the position holds the call's depth, that score and EXACT.
C12_CheckmateNodeScore ==
  \A r \in Requests :
    last[r].fn = "minimax" /\ last[r].depth >= 1 /\ is_checkmate(last[r].fen) =>
      LET e == transposition_table[last[r].fen] IN
        /\ last[r].score = IF Positions[last[r].fen].turn = last[r].persp
                           THEN -MateScore ELSE MateScore
        /\ e.score = last[r].score
        /\ e.flag = TT_EXACT
        /\ ~last[r].hit => e.depth = last[r].depth

\* C13: the step of minimax that probes the table returns the stored score,
\* searching nothing and storing nothing, exactly when the position has an
\* entry whose depth is at least the requested depth and that is EXACT, or
\* LOWERBOUND with score >= beta, or UPPERBOUND with score <= alpha; in
\* every other case the call does not return as a table hit.
C13_ProbeRule ==
  [][\A r \in Requests :
       Running(r, "minimax", "enter") /\ stack'[r] # stack[r] =>
         LET f == Top(r)
             e == transposition_table[f.fen]
             usable == /\ e # NoEntry
                       /\ e.depth >= f.depth
                       /\ \/ e.flag = TT_EXACT
                          \/ e.flag = TT_LOWERBOUND /\ e.score >= f.beta
                          \/ e.flag = TT_UPPERBOUND /\ e.score <= f.alpha
             returned == Len(stack'[r]) = Len(stack[r]) - 1
         IN IF usable
            THEN /\ returned /\ last'[r].hit /\ last'[r].fen = f.fen
                 /\ ret'[r] = e.score
                 /\ transposition_table' = transposition_table
                 /\ board' = board
            ELSE ~(returned /\ last'[r].hit)]_vars

\* a probe answered with a stored score, while a node further up whose entry
\* is a bound that does not cut its window is being searched
C13_Witness ==
  \E r \in Requests :
    /\ last[r].fn = "minimax" /\ last[r].hit
    /\ last[r].score = transposition_table[last[r].fen].score
    /\ \E k \in DOMAIN stack[r] :
         LET f == stack[r][k]
             e == transposition_table[f.fen]
         IN /\ f.fn = "minimax" /\ f.pc \in {"loop", "ret"}
            /\ e # NoEntry /\ e.depth >= f.depth /\ e.flag # TT_EXACT

\* C14: when minimax returns from the move loop of a node, the entry it
\* stores is EXACT if the loop ran through every move without a cutoff, and
\* LOWERBOUND or UPPERBOUND if the loop was left on beta <= alpha.
C14_StoreFlag ==
  [][\A r \in Requests :
       /\ pc[r] = "search" /\ stack[r] # << >> /\ Top(r).fn = "minimax"
       /\ Top(r).pc \in {"loop", "ret"}
       /\ Len(stack'[r]) = Len(stack[r]) - 1
       => LET f == Top(r)
              stored == transposition_table'[f.fen]
              cutoff == f.pc = "ret"
          IN /\ stored.depth = f.depth
             /\ stored.score = ret'[r]
             /\ stored.flag = TT_EXACT <=> ~cutoff
             /\ stored.flag \in {TT_LOWERBOUND, TT_UPPERBOUND} <=> cutoff]_vars

\* C15: a call of quiescence_search with alpha < beta returns a value between
\* alpha and beta, both included; it returns beta when the stand-pat
\* evaluation is at least beta, and then at once, before any move is
\* generated or made; it returns the incoming alpha when neither the
\* stand-pat evaluation nor the negated score of any noisy move exceeds it.
C15_QuiescenceFailHard ==
  /\ [](\A r \in Requests :
          last[r].fn = "quiescence_search" /\ last[r].alpha < last[r].beta =>
            LET c == last[r]
                stand_pat == StaticEval(c.fen, c.persp)
                noisy == noisy_moves(c.fen)
            IN /\ c.alpha <= c.score /\ c.score <= c.beta
               /\ stand_pat >= c.beta => c.score = c.beta
               /\ (/\ stand_pat <= c.alpha
                   /\ \A k \in DOMAIN noisy :
                        -quiescence_value(noisy[k].to, ~c.persp, -c.beta, -c.alpha) <= c.alpha)
                  => c.score = c.alpha)
  /\ [][\A r \in Requests :
          /\ Running(r, "quiescence_search", "enter")
          /\ stack'[r] # stack[r]
          /\ StaticEval(Top(r).fen, Top(r).persp) >= Top(r).beta
          => /\ Len(stack'[r]) = Len(stack[r]) - 1
             /\ ret'[r] = Top(r).beta
             /\ board' = board]_vars

\* a call with alpha < beta returned beta on its stand-pat evaluation, which
\* was above beta
C15_Witness ==
  \E r \in Requests :
    /\ last[r].fn = "quiescence_search"
    /\ last[r].alpha < last[r].beta /\ last[r].beta < Inf
    /\ StaticEval(last[r].fen, last[r].persp) > last[r].beta
    /\ last[r].score = last[r].beta

\* the moves applied and not yet undone below frame k of request r, plus one:
\* the place in the board's stack of the position frame k was called on
C16_Level(r, k) == 1 + Cardinality({j \in 1 .. (k - 1) : stack[r][j].pc = "ret"})

\* C16: while a search runs, the board holds exactly the moves of the calls
\* in progress: every frame's position is the board's position at the frame's
\* level, a frame waiting for or just back from the call on its move holds
\* that one move applied, and nothing else is on the board; so every return,
\* however the call ends, hands the board back as the call found it.  After
\* the search the board is the submitted position.
C16_ApplyUndo ==
  \A r \in Requests :
    /\ pc[r] = "search" =>
         /\ Len(board[r]) = C16_Level(r, Len(stack[r]) + 1)
         /\ \A k \in DOMAIN stack[r] :
              /\ stack[r][k].fen = board[r][C16_Level(r, k)]
              /\ stack[r][k].pc = "ret" =>
                   board[r][C16_Level(r, k) + 1] = stack[r][k].moves[stack[r][k].i].to
    /\ pc[r] = "done" /\ Searched(r) => board[r] = << data[r].board_fen >>

\* a call of quiescence_search has just returned on a cutoff inside its move
\* loop, and the board is the position the call began with
C16_Witness ==
  \E r \in Requests :
    /\ pc[r] = "search"
    /\ last[r].fn = "quiescence_search"
    /\ StaticEval(last[r].fen, last[r].persp) < last[r].beta
    /\ last[r].score = last[r].beta
    /\ noisy_moves(last[r].fen) # << >>
    /\ fen_of(r) = last[r].fen
    /\ Top(r).pc \in {"leaf", "ret"}

\* C17: in every call of minimax and of quiescence_search made for a request
\* that passed the turn check, the perspective flag is true exactly when
\* white is to move in the position of the call; so the entry of a position
\* was computed under the perspective of its side to move.
C17_PerspectiveIsSideToMove ==
  \A r \in Requests :
    /\ \A k \in DOMAIN stack[r] :
         stack[r][k].fn \in {"minimax", "quiescence_search"} =>
           stack[r][k].persp = Positions[stack[r][k].fen].turn
    /\ last[r].fn \in {"minimax", "quiescence_search"} =>
         last[r].persp = Positions[last[r].fen].turn

\* three plies below the root, in quiescence_search entered from a minimax
\* leaf, black engine: the flag has been flipped three times
C17_Witness ==
  \E r \in Requests :
    /\ pc[r] = "search"
    /\ data[r].ai_color = "black"
    /\ Len(board[r]) >= 4
    /\ Top(r).fn = "quiescence_search"
    /\ Top(r).persp = Positions[fen_of(r)].turn
    /\ \E k \in DOMAIN stack[r] : stack[r][k].fn = "minimax" /\ stack[r][k].pc = "leaf"

====
